---------------------------- MODULE Spec2Model ----------------------------
(***************************************************************************)
(* Model of c885a_prometheus_exporter.py: a Flask exporter that discovers  *)
(* PSU sensor endpoints of a BMC once at startup and, on every scrape of   *)
(* /metrics, fetches the thermal resource, fans out one task per PSU       *)
(* endpoint / fan entry / temperature entry on a thread pool, and routes   *)
(* each result by substrings of its normalized name to one of three        *)
(* gauges.                                                                 *)
(*                                                                         *)
(* Python strings are sequences of one-character strings, so that          *)
(* str.replace, the `in` test, str.endswith and str.split are computed     *)
(* character by character, as the interpreter computes them.               *)
(***************************************************************************)
EXTENDS Integers, Sequences, FiniteSets, TLC

(***************************************************************************)
(* Bounds of the model.                                                    *)
(***************************************************************************)
\* scrapes handled in one run
MaxCycles == 2
\* pieces an identifier handed to a name normalizer is assembled from
MaxPieces == 3

(***************************************************************************)
(* Python str operations.                                                  *)
(***************************************************************************)
\* s[i:i+len(p)] == p, for a 1-based position i
MatchAt(s, p, i) ==
    /\ i >= 1
    /\ i + Len(p) - 1 <= Len(s)
    /\ \A k \in 1..Len(p) : s[i + k - 1] = p[k]

\* p in s
Contains(s, p) == \E i \in 1..(Len(s) - Len(p) + 1) : MatchAt(s, p, i)

\* s.endswith(p)
EndsWith(s, p) == Len(p) <= Len(s) /\ MatchAt(s, p, Len(s) - Len(p) + 1)

\* s.startswith(p)
StartsWith(s, p) == MatchAt(s, p, 1)

RECURSIVE ReplaceFrom(_, _, _, _)
\* s[i-1:].replace(old, new): the leftmost occurrence first, then the next
\* one that does not overlap it, to the end of the string (old is not empty)
ReplaceFrom(s, old, new, i) ==
    IF i > Len(s) THEN <<>>
    ELSE IF MatchAt(s, old, i)
         THEN new \o ReplaceFrom(s, old, new, i + Len(old))
         ELSE <<s[i]>> \o ReplaceFrom(s, old, new, i + 1)

\* s.replace(old, new)
Replace(s, old, new) == ReplaceFrom(s, old, new, 1)

RECURSIVE LastIndexOf(_, _, _)
\* the greatest position <= i of character ch in s, 0 when there is none
LastIndexOf(s, ch, i) ==
    IF i = 0 THEN 0
    ELSE IF s[i] = ch THEN i ELSE LastIndexOf(s, ch, i - 1)

\* s.split(sep)[-1] for a one-character separator
SplitLast(s, ch) == SubSeq(s, LastIndexOf(s, ch, Len(s)) + 1, Len(s))

RECURSIVE Concat(_)
\* "".join(ps)
Concat(ps) == IF ps = <<>> THEN <<>> ELSE Head(ps) \o Concat(Tail(ps))

(***************************************************************************)
(* String literals of the source.                                          *)
(***************************************************************************)
S_power_ == <<"p","o","w","e","r","_">>
S_PWR_PDB_ == <<"P","W","R","_","P","D","B","_">>
S_PWR_MB_PSU == <<"P","W","R","_","M","B","_","P","S","U">>
S_PSU == <<"P","S","U">>
S_TRAY_PSU == <<"_","T","R","A","Y","_","P","S","U">>
S_GPU == <<"G","P","U">>
S_CPU == <<"C","P","U">>
S_TEMP == <<"T","E","M","P">>
S_FAN == <<"F","A","N">>
S_SPD_ == <<"S","P","D","_">>
S__F == <<"_","F">>
S__R == <<"_","R">>
S_Front == <<" ","F","r","o","n","t">>
S_Rear == <<" ","R","e","a","r">>
S_Unknown == <<"U","n","k","n","o","w","n">>
S_PDB_PSU == <<"P","D","B","_","P","S","U">>
S_MB_PSU == <<"M","B","_","P","S","U">>

\* "power_PWR_PDB_": the marker of the GPU group
S_power_PWR_PDB_ == S_power_ \o S_PWR_PDB_
\* "power_PWR_PDB_PSU"
S_power_PWR_PDB_PSU == S_power_ \o S_PWR_PDB_ \o S_PSU
\* "power_PWR_MB_PSU"
S_power_PWR_MB_PSU == S_power_ \o S_PWR_MB_PSU
\* "GPU_TRAY_PSU"
S_GPU_TRAY_PSU == S_GPU \o S_TRAY_PSU
\* "CPU_TRAY_PSU"
S_CPU_TRAY_PSU == S_CPU \o S_TRAY_PSU
\* "power_CPU_TRAY_PSU"
S_power_CPU_TRAY_PSU == S_power_ \o S_CPU_TRAY_PSU
\* "TEMP_PDB_PSU"
S_TEMP_PDB_PSU == S_TEMP \o <<"_">> \o S_PDB_PSU
\* "TEMP_MB_PSU"
S_TEMP_MB_PSU == S_TEMP \o <<"_">> \o S_MB_PSU
\* "TEMP_GPU_TRAY_PSU"
S_TEMP_GPU_TRAY_PSU == S_TEMP \o <<"_">> \o S_GPU_TRAY_PSU
\* "TEMP_CPU_TRAY_PSU"
S_TEMP_CPU_TRAY_PSU == S_TEMP \o <<"_">> \o S_CPU_TRAY_PSU

(***************************************************************************)
(* The name normalizers.                                                   *)
(***************************************************************************)
\* parse_psu_name looking for the marker "PSU" alone
parse_psu_name_ShortMarker(member_id, is_gpu) ==
    IF is_gpu
    THEN Replace(member_id, S_PSU, S_GPU_TRAY_PSU)
    ELSE Replace(member_id, S_PSU, S_CPU_TRAY_PSU)

parse_psu_name(member_id, is_gpu) ==
    IF is_gpu
    THEN Replace(member_id, S_power_PWR_PDB_PSU, S_GPU_TRAY_PSU)
    ELSE Replace(member_id, S_power_PWR_MB_PSU, S_CPU_TRAY_PSU)

parse_fan_name(member_id) ==
    LET m == Replace(member_id, S_SPD_, <<>>)
    IN  IF EndsWith(m, S__F) THEN Replace(m, S__F, S_Front)
        ELSE IF EndsWith(m, S__R) THEN Replace(m, S__R, S_Rear)
        ELSE m

\* parse_temp_name without its elif branch
parse_temp_name_NoCpu(member_id) ==
    IF Contains(member_id, S_TEMP_PDB_PSU)
    THEN Replace(member_id, S_TEMP_PDB_PSU, S_TEMP_GPU_TRAY_PSU)
    ELSE member_id

parse_temp_name(member_id) ==
    IF Contains(member_id, S_TEMP_PDB_PSU)
    THEN Replace(member_id, S_TEMP_PDB_PSU, S_TEMP_GPU_TRAY_PSU)
    ELSE IF Contains(member_id, S_TEMP_MB_PSU)
         THEN Replace(member_id, S_TEMP_MB_PSU, S_TEMP_CPU_TRAY_PSU)
         ELSE member_id


(***************************************************************************)
(* JSON values and HTTP answers of the BMC.                                *)
(*                                                                         *)
(* A field of a JSON object is <<"absent">>, <<"null">>, <<"num", v>> or   *)
(* <<"str", s>>.  Python's None is <<"None">>.  An HTTP answer is a record *)
(* whose kind is "neterr" (requests.get raises), "status"                  *)
(* (raise_for_status raises), "badjson" (response.json raises) or "json".  *)
(***************************************************************************)
None == <<"None">>
Absent == <<"absent">>
Null == <<"null">>
Num(v) == <<"num", v>>
Str(s) == <<"str", s>>

\* d.get(key): None for a missing key and for a JSON null
DictGet(field) == IF field[1] \in {"absent", "null"} THEN None ELSE field

\* d.get(key, default)
DictGetDefault(field, default) ==
    IF field[1] = "absent" THEN default
    ELSE IF field[1] = "null" THEN None ELSE field

FailKinds == {"neterr", "status", "badjson"}

\* the path the listing puts before a sensor's member id
S_SensorsPath == <<"/","v","1","/","S","/">>

Path(member_id) == S_SensorsPath \o member_id

Member(id) == [odata_id |-> Str(id)]

\* member ids of the sensor listing
Id_PDB_PSU1 == S_power_PWR_PDB_PSU \o <<"1">>
Id_PDB_PSU2 == S_power_PWR_PDB_PSU \o <<"2">>
Id_MB_PSU1 == S_power_PWR_MB_PSU \o <<"1">>
Id_PDB_HSC1 == S_power_PWR_PDB_ \o <<"H","S","C","1">>
Id_PDB_MB_PSU1 == S_power_PWR_PDB_ \o S_PWR_MB_PSU \o <<"1">>
Id_power_MB_PSU1 == S_power_ \o S_power_PWR_MB_PSU \o <<"1">>
Id_FAN3_F == S_SPD_ \o S_FAN \o <<"3">> \o S__F
\* the same fan under its short name
Id_FAN3_F_short == S_FAN \o <<"3">> \o S__F
Id_TEMP_PDB_PSU1 == S_TEMP_PDB_PSU \o <<"1">>
\* a temperature sensor of a fan board
Id_TEMP_FAN1 == S_TEMP \o <<"_">> \o S_FAN \o <<"1">>
Id_PDB_PSU3 == S_power_PWR_PDB_PSU \o <<"3">>
Id_MB_PSU2 == S_power_PWR_MB_PSU \o <<"2">>

\* The machines the exporter may be pointed at.  Machine 1 has one PSU, a fan
\* and a temperature sensor; machine 2 three PSUs; machines 3 and 4 list
\* members whose names do not follow the convention.
BMCs == 1..4
\* A machine with five PSU sensors, each answering with a reading or not at all
FiveBmc == 5
\* A machine with one PSU sensor in each group, answering likewise; it is
\* scraped by two clients at once
TwoBmc == 6

\* the members each machine lists

ListingOf(b) ==
    CASE b = 1 -> <<Member(Path(Id_PDB_PSU2)), Member(Path(Id_FAN3_F))>>
      [] b = 2 -> <<Member(Path(Id_PDB_PSU1)), Member(Path(Id_MB_PSU1)),
                    Member(Path(Id_PDB_PSU2))>>
      [] b = 3 -> <<Member(Path(Id_PDB_HSC1)), Member(Path(Id_power_MB_PSU1))>>
      [] b = 4 -> <<Member(Path(Id_PDB_MB_PSU1)), Member(Path(Id_TEMP_PDB_PSU1))>>
      [] b = 5 -> <<Member(Path(Id_PDB_PSU1)), Member(Path(Id_PDB_PSU2)),
                    Member(Path(Id_PDB_PSU3)), Member(Path(Id_MB_PSU1)),
                    Member(Path(Id_MB_PSU2))>>
      [] b = 6 -> <<Member(Path(Id_PDB_PSU1)), Member(Path(Id_MB_PSU1))>>

\* the answers a machine may give to the listing request
ListingResponses(b) ==
    {[kind |-> k, has_Members |-> FALSE, Members |-> <<>>] : k \in FailKinds}
    \cup {[kind |-> "json", has_Members |-> FALSE, Members |-> <<>>],
          [kind |-> "json", has_Members |-> TRUE,
           Members |-> <<[odata_id |-> Absent]>>],
          [kind |-> "json", has_Members |-> TRUE, Members |-> ListingOf(b)]}

\* the value fetch number n of a cycle reads: every reading is told apart
SensorValue(c, n) == 100 * c + n

FanEntry(id, reading) == [MemberId |-> id, Reading |-> reading]
TempEntry(id, reading) == [MemberId |-> id, ReadingCelsius |-> reading]

\* the thermal body with neither a Fans nor a Temperatures field
NoThermalBody ==
    [has_Fans |-> FALSE, Fans |-> <<>>,
     has_Temperatures |-> FALSE, Temperatures |-> <<>>]

\* the bodies a machine may give for the thermal resource in cycle c
ThermalBodies(b, c) ==
    LET empty == NoThermalBody
        full == [has_Fans |-> TRUE,
                 Fans |-> <<FanEntry(Str(Id_FAN3_F), Num(SensorValue(c, 11)))>>,
                 has_Temperatures |-> TRUE,
                 Temperatures |-> <<TempEntry(Str(Id_TEMP_PDB_PSU1),
                                              Num(SensorValue(c, 21)))>>]
        nulls == [has_Fans |-> TRUE,
                  Fans |-> <<FanEntry(Str(Id_FAN3_F), Null)>>,
                  has_Temperatures |-> TRUE,
                  Temperatures |-> <<TempEntry(Str(Id_TEMP_PDB_PSU1), Absent)>>]
        twins == [has_Fans |-> TRUE,
                  Fans |-> <<FanEntry(Str(Id_FAN3_F), Num(SensorValue(c, 11))),
                             FanEntry(Str(Id_FAN3_F_short), Num(SensorValue(c, 12)))>>,
                  has_Temperatures |-> FALSE, Temperatures |-> <<>>]
        odd == [has_Fans |-> TRUE,
                Fans |-> <<FanEntry(Absent, Num(SensorValue(c, 11)))>>,
                has_Temperatures |-> FALSE, Temperatures |-> <<>>]
        fanboard == [has_Fans |-> FALSE, Fans |-> <<>>,
                     has_Temperatures |-> TRUE,
                     Temperatures |-> <<TempEntry(Str(Id_TEMP_FAN1),
                                                  Num(SensorValue(c, 21)))>>]
    IN  CASE b = 1 -> {empty, full, nulls, twins}
          [] b = 2 -> {empty}
          [] b = 3 -> {empty, odd}
          [] b = 4 -> {empty, fanboard}
          [] b = 5 -> {empty}
          [] b = 6 -> {empty}

\* the answers to the thermal request of cycle c
ThermalResponses(b, c) ==
    {[kind |-> k, body |-> NoThermalBody] : k \in FailKinds}
    \cup {[kind |-> "json", body |-> t] : t \in ThermalBodies(b, c)}

\* the answers to the n-th PSU request of cycle c
PsuResponses(b, c, n) ==
    IF b \in {FiveBmc, TwoBmc}
    THEN {[kind |-> "neterr", Reading |-> Absent],
          [kind |-> "json", Reading |-> Num(SensorValue(c, n))]}
    ELSE {[kind |-> k, Reading |-> Absent] : k \in FailKinds}
         \cup {[kind |-> "json", Reading |-> r] :
                 r \in {Absent, Null, Num(SensorValue(c, n))}}


(***************************************************************************)
(* State.                                                                  *)
(***************************************************************************)
Cycles == 1..MaxCycles

VARIABLES
    bmc,                \* the machine behind server_ip
    main_pc,            \* __main__: "start", "serving" or "exited"
    listing,            \* the answer the listing request got ("none" before)
    gpu_psu_endpoints,  \* module global
    cpu_psu_endpoints,  \* module global
    psu_power_gauge,    \* label -> value
    fan_speed_gauge,    \* label -> value
    temperature_gauge,  \* label -> value
    phase,              \* per scrape: where metrics()/collect_metrics() stands
    thermal,            \* per scrape: the thermal request was answered "ok" or "failed"
    futures,            \* per scrape: the submitted calls, in submission order
    fresult,            \* per scrape: future index -> outcome of the call
    completed,          \* per scrape: future indexes in completion order
    entered,            \* per scrape: how many had completed when as_completed began
    yielded,            \* per scrape: future indexes the result loop has handled
    errlog,             \* per scrape: logger.error calls of the result loop
    updated,            \* per scrape: the gauge writes made, <<future, gauge, label>>
    pre,                \* per scrape: the three gauges when the scrape began
    response,           \* per scrape: 0 (none yet), 200 or 500
    hung,               \* per scrape: the calls whose request is never answered
    reqlog,             \* per scrape: path -> number of requests.get calls for it
    nm_fn,              \* normalizer applied to nm_in ("none" before)
    nm_in,              \* identifier handed to a normalizer
    nm_out              \* what the normalizer returned

globals == <<main_pc, listing, gpu_psu_endpoints, cpu_psu_endpoints>>
gauges == <<psu_power_gauge, fan_speed_gauge, temperature_gauge>>
locals == <<futures, fresult, completed, entered, yielded>>
history == <<thermal, errlog, updated, pre>>
nm_vars == <<nm_fn, nm_in, nm_out>>
vars == <<bmc, hung, reqlog, globals, gauges, phase, locals, history, response, nm_vars>>

NoRequests == [k \in {} |-> 0]

\* the path of thermal_base_url
S_ThermalPath == <<"/","v","1","/","T">>

\* requests.get(url) is called once more
requests_get(log, url) ==
    [k \in DOMAIN log \cup {url} |->
        IF k = url THEN (IF url \in DOMAIN log THEN log[url] + 1 ELSE 1)
        ELSE log[k]]

NoGauge == [k \in {} |-> 0]
NoResults == [k \in {} |-> 0]
NoPre == [power |-> NoGauge, fan |-> NoGauge, temp |-> NoGauge]

(***************************************************************************)
(* initialize_psu_endpoints                                                *)
(***************************************************************************)
\* `marker in member["@odata.id"]`
HasMarker(member, marker) == Contains(member.odata_id[2], marker)

\* [member["@odata.id"] for member in members if marker in member["@odata.id"]]
IdsWith(members, marker) ==
    LET Test(m) == HasMarker(m, marker)
        sel == SelectSeq(members, Test)
    IN  [k \in 1..Len(sel) |-> sel[k].odata_id[2]]

\* the try block raises: the request, the status, the body, data["Members"]
\* or member["@odata.id"]
ListingRaises(resp) ==
    \/ resp.kind \in FailKinds
    \/ ~resp.has_Members
    \/ \E k \in 1..Len(resp.Members) : resp.Members[k].odata_id[1] # "str"

\* initialize_psu_endpoints whose except clause logs and goes on
initialize_psu_endpoints_NoExit(resp) ==
    IF ListingRaises(resp)
    THEN [exit |-> FALSE, gpu |-> <<>>, cpu |-> <<>>]
    ELSE [exit |-> FALSE,
          gpu |-> IdsWith(resp.Members, S_power_PWR_PDB_),
          cpu |-> IdsWith(resp.Members, S_PWR_MB_PSU)]

initialize_psu_endpoints(resp) ==
    IF ListingRaises(resp)
    THEN [exit |-> TRUE, gpu |-> <<>>, cpu |-> <<>>]
    ELSE [exit |-> FALSE,
          gpu |-> IdsWith(resp.Members, S_power_PWR_PDB_),
          cpu |-> IdsWith(resp.Members, S_PWR_MB_PSU)]

(***************************************************************************)
(* The calls a cycle submits to the pool.                                  *)
(***************************************************************************)
Raised == [exc |-> TRUE, Name |-> <<>>, Reading |-> None]
Returned(name, reading) == [exc |-> FALSE, Name |-> name, Reading |-> reading]

query_psu(psu_url, is_gpu, resp) ==
    IF resp.kind \in FailKinds THEN Raised
    ELSE Returned(parse_psu_name(SplitLast(psu_url, "/"), is_gpu),
                  DictGet(resp.Reading))

\* query_thermal_data answering a failed request with two empty lists
query_thermal_data_Swallowed(resp) ==
    [exc |-> FALSE,
     fans |-> IF resp.kind \notin FailKinds /\ resp.body.has_Fans
              THEN resp.body.Fans ELSE <<>>,
     temps |-> IF resp.kind \notin FailKinds /\ resp.body.has_Temperatures
               THEN resp.body.Temperatures ELSE <<>>]

query_thermal_data(resp) ==
    IF resp.kind \in FailKinds
    THEN [exc |-> TRUE, fans |-> <<>>, temps |-> <<>>]
    ELSE [exc |-> FALSE,
          fans |-> IF resp.body.has_Fans THEN resp.body.Fans ELSE <<>>,
          temps |-> IF resp.body.has_Temperatures
                    THEN resp.body.Temperatures ELSE <<>>]

\* parse_fan_name(None) raises AttributeError
query_fan(fan_data) ==
    LET reading == DictGet(fan_data.Reading)
        member_id == DictGetDefault(fan_data.MemberId, Str(S_Unknown))
    IN  IF member_id = None THEN Raised
        ELSE Returned(parse_fan_name(member_id[2]), reading)

\* `"TEMP_PDB_PSU" in None` raises TypeError
query_temp(temp_data) ==
    LET reading == DictGet(temp_data.ReadingCelsius)
        member_id == DictGetDefault(temp_data.MemberId, Str(S_Unknown))
    IN  IF member_id = None THEN Raised
        ELSE Returned(parse_temp_name(member_id[2]), reading)

PsuCall(url, is_gpu) == [fn |-> "query_psu", psu_url |-> url, is_gpu |-> is_gpu]
FanCall(fan_data) == [fn |-> "query_fan", data |-> fan_data]
TempCall(temp_data) == [fn |-> "query_temp", data |-> temp_data]

\* the fan-out without the loop over cpu_psu_endpoints
Submitted_GpuOnly(gpu, cpu, fan_data_list, temp_data_list) ==
    [k \in 1..Len(gpu) |-> PsuCall(gpu[k], TRUE)]
    \o [k \in 1..Len(fan_data_list) |-> FanCall(fan_data_list[k])]
    \o [k \in 1..Len(temp_data_list) |-> TempCall(temp_data_list[k])]

\* lines 145-161: the futures list, in submission order
Submitted(gpu, cpu, fan_data_list, temp_data_list) ==
    [k \in 1..Len(gpu) |-> PsuCall(gpu[k], TRUE)]
    \o [k \in 1..Len(cpu) |-> PsuCall(cpu[k], FALSE)]
    \o [k \in 1..Len(fan_data_list) |-> FanCall(fan_data_list[k])]
    \o [k \in 1..Len(temp_data_list) |-> TempCall(temp_data_list[k])]

(***************************************************************************)
(* The result loop of collect_metrics.                                     *)
(***************************************************************************)
\* Classify without the `'TEMP' not in name` test of the power branch
Classify_TempAsPower(name) ==
    IF Contains(name, S_GPU_TRAY_PSU) \/ Contains(name, S_CPU_TRAY_PSU)
    THEN [gauge |-> "psu_power_gauge", label |-> name]
    ELSE IF Contains(name, S_FAN)
    THEN [gauge |-> "fan_speed_gauge", label |-> name]
    ELSE IF Contains(name, S_TEMP) \/ Contains(name, S_TEMP_CPU_TRAY_PSU)
    THEN [gauge |-> "temperature_gauge", label |-> name]
    ELSE IF Contains(name, S_power_CPU_TRAY_PSU)
    THEN [gauge |-> "psu_power_gauge", label |-> Replace(name, S_power_, <<>>)]
    ELSE [gauge |-> "none", label |-> name]

\* lines 169-179: the gauge a name goes to and the label it gets
Classify(name) ==
    IF (Contains(name, S_GPU_TRAY_PSU) \/ Contains(name, S_CPU_TRAY_PSU))
       /\ ~Contains(name, S_TEMP)
    THEN [gauge |-> "psu_power_gauge", label |-> name]
    ELSE IF Contains(name, S_FAN)
    THEN [gauge |-> "fan_speed_gauge", label |-> name]
    ELSE IF Contains(name, S_TEMP) \/ Contains(name, S_TEMP_CPU_TRAY_PSU)
    THEN [gauge |-> "temperature_gauge", label |-> name]
    ELSE IF Contains(name, S_power_CPU_TRAY_PSU)
    THEN [gauge |-> "psu_power_gauge", label |-> Replace(name, S_power_, <<>>)]
    ELSE [gauge |-> "none", label |-> name]

\* float(x) of a JSON number
Float(reading) == reading[2]

\* a set() that drops the other labels of the gauge
GaugeSet_Clearing(g, label, value) == [k \in {label} |-> value]

\* gauge.labels(label).set(value)
GaugeSet(g, label, value) ==
    [k \in DOMAIN g \cup {label} |-> IF k = label THEN value ELSE g[k]]

\* What one turn of the loop body does
Effect(raises, error, gauge, label, value) ==
    [raises |-> raises, error |-> error, gauge |-> gauge, label |-> label,
     value |-> value]

\* Handle without the try block: the exception of a call leaves the loop
Handle_Uncaught(result) ==
    IF result.exc THEN Effect(TRUE, FALSE, "none", <<>>, 0)
    ELSE IF result.Reading = None THEN Effect(FALSE, FALSE, "none", <<>>, 0)
    ELSE LET cl == Classify(result.Name)
         IN  Effect(FALSE, FALSE, cl.gauge, cl.label, Float(result.Reading))

\* Handle without the `is not None` test: float(None) raises in the try block
Handle_NoNoneTest(result) ==
    IF result.exc THEN Effect(FALSE, TRUE, "none", <<>>, 0)
    ELSE IF result.Reading = None THEN Effect(FALSE, TRUE, "none", <<>>, 0)
    ELSE LET cl == Classify(result.Name)
         IN  Effect(FALSE, FALSE, cl.gauge, cl.label, Float(result.Reading))

\* lines 165-181 for one future: future.result() re-raises the exception of
\* the call inside the try block, whose except clause logs it
Handle(result) ==
    IF result.exc THEN Effect(FALSE, TRUE, "none", <<>>, 0)
    ELSE IF result.Reading = None THEN Effect(FALSE, FALSE, "none", <<>>, 0)
    ELSE LET cl == Classify(result.Name)
         IN  Effect(FALSE, FALSE, cl.gauge, cl.label, Float(result.Reading))

\* as_completed forgetting the futures that were done when it began
NextYield_LateOnly(c) ==
    LET n == entered[c] + Cardinality(yielded[c]) + 1
    IN  IF n <= Len(completed[c]) THEN {completed[c][n]} ELSE {}

\* as_completed handing out the calls that finished since its last look
\* newest first
NextYield_NewestFirst(c) ==
    LET early == {completed[c][k] : k \in 1..entered[c]} \ yielded[c]
        late == {k \in (entered[c] + 1)..Len(completed[c]) :
                    completed[c][k] \notin yielded[c]}
    IN  IF early # {} THEN early
        ELSE IF late # {}
             THEN {completed[c][CHOOSE k \in late : \A m \in late : m <= k]}
             ELSE {}

\* the futures as_completed may yield next: those done when it began, in any
\* order, then the others in the order they complete
NextYield(c) ==
    LET early == {completed[c][k] : k \in 1..entered[c]} \ yielded[c]
        n == Cardinality(yielded[c]) + 1
    IN  IF early # {} THEN early
        ELSE IF n <= Len(completed[c]) THEN {completed[c][n]} ELSE {}

Running(c) == (1..Len(futures[c])) \ {completed[c][k] : k \in 1..Len(completed[c])}

(***************************************************************************)
(* Startup.                                                                *)
(***************************************************************************)
NoListing == [kind |-> "none", has_Members |-> FALSE, Members |-> <<>>]

SystemInit ==
    /\ main_pc = "start"
    /\ listing = NoListing
    /\ gpu_psu_endpoints = <<>>
    /\ cpu_psu_endpoints = <<>>
    /\ psu_power_gauge = NoGauge
    /\ fan_speed_gauge = NoGauge
    /\ temperature_gauge = NoGauge
    /\ phase = [c \in Cycles |-> "idle"]
    /\ thermal = [c \in Cycles |-> "none"]
    /\ futures = [c \in Cycles |-> <<>>]
    /\ fresult = [c \in Cycles |-> NoResults]
    /\ completed = [c \in Cycles |-> <<>>]
    /\ entered = [c \in Cycles |-> 0]
    /\ yielded = [c \in Cycles |-> {}]
    /\ errlog = [c \in Cycles |-> 0]
    /\ updated = [c \in Cycles |-> {}]
    /\ pre = [c \in Cycles |-> NoPre]
    /\ response = [c \in Cycles |-> 0]
    /\ hung = [c \in Cycles |-> {}]
    /\ reqlog = [c \in Cycles |-> NoRequests]

Init ==
    /\ bmc \in BMCs
    /\ SystemInit
    /\ nm_fn = "none"
    /\ nm_in = <<>>
    /\ nm_out = <<>>

\* __main__, line 194: the listing request is answered
Discover ==
    /\ main_pc = "start"
    /\ \E resp \in ListingResponses(bmc) :
         LET r == initialize_psu_endpoints(resp)
         IN  /\ listing' = resp
             /\ main_pc' = IF r.exit THEN "exited" ELSE "serving"
             /\ gpu_psu_endpoints' = r.gpu
             /\ cpu_psu_endpoints' = r.cpu
    /\ UNCHANGED <<bmc, hung, reqlog, gauges, phase, locals, history, response, nm_vars>>

(***************************************************************************)
(* One scrape: metrics() and the collect_metrics() it calls.               *)
(***************************************************************************)
\* the scrapes of a run arrive one after the other
Serial(c) == \A d \in Cycles : d < c => phase[d] = "responded"

\* GET /metrics arrives: metrics() calls collect_metrics(), which sends the
\* thermal request
Scrape(c) ==
    /\ main_pc = "serving"
    /\ phase[c] = "idle"
    /\ Serial(c)
    /\ phase' = [phase EXCEPT ![c] = "thermal"]
    /\ pre' = [pre EXCEPT ![c] = [power |-> psu_power_gauge,
                                  fan |-> fan_speed_gauge,
                                  temp |-> temperature_gauge]]
    /\ UNCHANGED <<bmc, hung, reqlog, globals, gauges, locals, thermal, errlog, updated,
                   response, nm_vars>>

\* lines 141-161: the thermal request is answered; on success every call is
\* submitted to the pool
QueryThermal(c) ==
    /\ phase[c] = "thermal"
    /\ \E resp \in ThermalResponses(bmc, c) :
         LET t == query_thermal_data(resp)
         IN  /\ thermal' = [thermal EXCEPT ![c] =
                    IF resp.kind \in FailKinds THEN "failed" ELSE "ok"]
             /\ IF t.exc
                THEN /\ phase' = [phase EXCEPT ![c] = "raised"]
                     /\ UNCHANGED futures
                ELSE /\ phase' = [phase EXCEPT ![c] = "submitted"]
                     /\ futures' = [futures EXCEPT ![c] =
                            Submitted(gpu_psu_endpoints, cpu_psu_endpoints,
                                      t.fans, t.temps)]
    /\ reqlog' = [reqlog EXCEPT ![c] = requests_get(@, S_ThermalPath)]
    /\ UNCHANGED <<bmc, hung, globals, gauges, fresult, completed, entered, yielded,
                   errlog, updated, pre, response, nm_vars>>

\* the outcomes call i of cycle c can have
Outcomes(c, i) ==
    LET call == futures[c][i]
    IN  CASE call.fn = "query_psu" ->
               {query_psu(call.psu_url, call.is_gpu, resp) : resp \in PsuResponses(bmc, c, i)}
          [] call.fn = "query_fan" -> {query_fan(call.data)}
          [] call.fn = "query_temp" -> {query_temp(call.data)}

\* a pool thread finishes call i: the future holds a result or an exception
TaskDone(c, i) ==
    /\ phase[c] \in {"submitted", "as_completed", "unwinding"}
    /\ i \in Running(c) \ hung[c]
    /\ \E r \in Outcomes(c, i) :
         fresult' = [fresult EXCEPT ![c] =
             [k \in DOMAIN fresult[c] \cup {i} |-> IF k = i THEN r ELSE fresult[c][k]]]
    /\ completed' = [completed EXCEPT ![c] = Append(completed[c], i)]
    /\ reqlog' = [reqlog EXCEPT ![c] =
           IF futures[c][i].fn = "query_psu"
           THEN requests_get(@, futures[c][i].psu_url) ELSE @]
    /\ UNCHANGED <<bmc, hung, globals, gauges, phase, futures, entered, yielded,
                   history, response, nm_vars>>

\* line 164: as_completed(futures) takes stock of the futures already done
AsCompleted(c) ==
    /\ phase[c] = "submitted"
    /\ phase' = [phase EXCEPT ![c] = "as_completed"]
    /\ entered' = [entered EXCEPT ![c] = Len(completed[c])]
    /\ UNCHANGED <<bmc, hung, reqlog, globals, gauges, futures, fresult, completed, yielded,
                   history, response, nm_vars>>

\* lines 165-181: one turn of the result loop
HandleNext(c) ==
    /\ phase[c] = "as_completed"
    /\ \E i \in NextYield(c) :
         LET h == Handle(fresult[c][i])
         IN  /\ phase' = [phase EXCEPT ![c] =
                    IF h.raises THEN "unwinding" ELSE @]
             /\ yielded' = [yielded EXCEPT ![c] = @ \cup {i}]
             /\ errlog' = [errlog EXCEPT ![c] = IF h.error THEN @ + 1 ELSE @]
             /\ updated' = [updated EXCEPT ![c] =
                    IF h.gauge = "none" THEN @ ELSE @ \cup {<<i, h.gauge, h.label>>}]
             /\ psu_power_gauge' =
                    IF h.gauge = "psu_power_gauge"
                    THEN GaugeSet(psu_power_gauge, h.label, h.value)
                    ELSE psu_power_gauge
             /\ fan_speed_gauge' =
                    IF h.gauge = "fan_speed_gauge"
                    THEN GaugeSet(fan_speed_gauge, h.label, h.value)
                    ELSE fan_speed_gauge
             /\ temperature_gauge' =
                    IF h.gauge = "temperature_gauge"
                    THEN GaugeSet(temperature_gauge, h.label, h.value)
                    ELSE temperature_gauge
    /\ UNCHANGED <<bmc, hung, reqlog, globals, futures, fresult, completed, entered,
                   thermal, pre, response, nm_vars>>

\* collect_metrics that does not wait: the loop takes what is finished and
\* the pool is shut down with wait=False
MayLeave_NoWait(c) == phase[c] \in {"as_completed", "unwinding"}

\* lines 144-181: the with block can be left
MayLeave(c) ==
    /\ \/ phase[c] = "as_completed" /\ yielded[c] = 1..Len(futures[c])
       \/ phase[c] = "unwinding"
    /\ Running(c) = {}

\* The with block is left, after the last future was yielded or on an
\* exception in the loop: ThreadPoolExecutor.__exit__ waits for every call,
\* then collect_metrics returns or the exception goes on to metrics()
Return(c) ==
    /\ MayLeave(c)
    /\ phase' = [phase EXCEPT ![c] =
           IF phase[c] = "unwinding" THEN "raised" ELSE "collected"]
    /\ UNCHANGED <<bmc, hung, reqlog, globals, gauges, locals, history, response, nm_vars>>

\* metrics() answering 200 whatever collect_metrics did
metrics_AlwaysOk(raised) == 200

\* lines 185-190: the status metrics() answers with
metrics(raised) == IF raised THEN 500 ELSE 200

\* metrics() answers the scrape; the locals of the call are gone
Respond(c) ==
    /\ phase[c] \in {"collected", "raised"}
    /\ response' = [response EXCEPT ![c] = metrics(phase[c] = "raised")]
    /\ phase' = [phase EXCEPT ![c] = "responded"]
    /\ futures' = [futures EXCEPT ![c] = <<>>]
    /\ fresult' = [fresult EXCEPT ![c] = NoResults]
    /\ completed' = [completed EXCEPT ![c] = <<>>]
    /\ entered' = [entered EXCEPT ![c] = 0]
    /\ yielded' = [yielded EXCEPT ![c] = {}]
    /\ errlog' = [errlog EXCEPT ![c] = 0]
    /\ updated' = [updated EXCEPT ![c] = {}]
    /\ pre' = [pre EXCEPT ![c] = NoPre]
    /\ reqlog' = [reqlog EXCEPT ![c] = NoRequests]
    /\ UNCHANGED <<bmc, hung, globals, gauges, thermal, nm_vars>>

Next ==
    \/ Discover
    \/ \E c \in Cycles : Scrape(c)
    \/ \E c \in Cycles : QueryThermal(c)
    \/ \E c \in Cycles : \E i \in 1..Len(futures[c]) : TaskDone(c, i)
    \/ \E c \in Cycles : AsCompleted(c)
    \/ \E c \in Cycles : HandleNext(c)
    \/ \E c \in Cycles : Return(c)
    \/ \E c \in Cycles : Respond(c)

Spec == Init /\ [][Next]_vars

(***************************************************************************)
(* The same with a BMC that may leave one PSU request of a cycle without   *)
(* any answer: requests.get is called without a timeout and blocks.        *)
(***************************************************************************)
Hang(c, i) ==
    /\ phase[c] \in {"submitted", "as_completed", "unwinding"}
    /\ i \in Running(c)
    /\ futures[c][i].fn = "query_psu"
    /\ hung[c] = {}
    /\ hung' = [hung EXCEPT ![c] = {i}]
    /\ reqlog' = [reqlog EXCEPT ![c] = requests_get(@, futures[c][i].psu_url)]
    /\ UNCHANGED <<bmc, globals, gauges, phase, locals, history, response, nm_vars>>

NextHang ==
    \/ Next
    \/ \E c \in Cycles : \E i \in 1..Len(futures[c]) : Hang(c, i)

SpecHang == Init /\ [][NextHang]_vars

(***************************************************************************)
(* Scrapes that overlap: app.run serves every request on a thread of its   *)
(* own, so a scrape may arrive while the cycle of another is under way.    *)
(***************************************************************************)
\* the scrapes that arrived and are not answered yet
InFlight == {d \in Cycles : phase[d] \notin {"idle", "responded"}}

InitOverlap ==
    /\ bmc = TwoBmc
    /\ SystemInit
    /\ nm_fn = "none"
    /\ nm_in = <<>>
    /\ nm_out = <<>>

\* GET /metrics arrives while at most one other scrape is being served
ScrapeDuring(c) ==
    /\ main_pc = "serving"
    /\ phase[c] = "idle"
    /\ \A d \in Cycles : d < c => phase[d] # "idle"
    /\ Cardinality(InFlight) < 2
    /\ phase' = [phase EXCEPT ![c] = "thermal"]
    /\ pre' = [pre EXCEPT ![c] = [power |-> psu_power_gauge,
                                  fan |-> fan_speed_gauge,
                                  temp |-> temperature_gauge]]
    /\ UNCHANGED <<bmc, hung, reqlog, globals, gauges, locals, thermal, errlog,
                   updated, response, nm_vars>>

NextOverlap ==
    \/ Discover
    \/ \E c \in Cycles : ScrapeDuring(c)
    \/ \E c \in Cycles : QueryThermal(c)
    \/ \E c \in Cycles : \E i \in 1..Len(futures[c]) : TaskDone(c, i)
    \/ \E c \in Cycles : AsCompleted(c)
    \/ \E c \in Cycles : HandleNext(c)
    \/ \E c \in Cycles : Return(c)
    \/ \E c \in Cycles : Respond(c)

SpecOverlap == InitOverlap /\ [][NextOverlap]_vars

(***************************************************************************)
(* One scrape of any machine, the five-PSU machine among them.             *)
(***************************************************************************)
InitOnce ==
    /\ bmc \in BMCs \cup {FiveBmc}
    /\ SystemInit
    /\ nm_fn = "none"
    /\ nm_in = <<>>
    /\ nm_out = <<>>

NextOnce ==
    \/ Discover
    \/ Scrape(1)
    \/ QueryThermal(1)
    \/ \E i \in 1..Len(futures[1]) : TaskDone(1, i)
    \/ AsCompleted(1)
    \/ HandleNext(1)
    \/ Return(1)
    \/ Respond(1)

SpecOnce == InitOnce /\ [][NextOnce]_vars

(***************************************************************************)
(* The name normalizers on their own: an identifier is assembled from      *)
(* pieces of the naming convention and handed to one normalizer.           *)
(***************************************************************************)
Pieces ==
    {S_SPD_, S_FAN \o <<"1">>, S__F, S__R, S_TEMP_PDB_PSU, S_TEMP_MB_PSU,
     S_TEMP \o <<"_","A","M","B","I","E","N","T">>, S_power_,
     S_power_PWR_PDB_PSU, S_power_PWR_MB_PSU, S_GPU_TRAY_PSU, S_CPU_TRAY_PSU,
     <<"1">>}

NameInputs ==
    {Concat(ps) : ps \in UNION {[1..n -> Pieces] : n \in 0..MaxPieces}}

InitNames ==
    /\ bmc = 1
    /\ SystemInit
    /\ nm_fn = "none"
    /\ nm_in \in NameInputs
    /\ nm_out = <<>>

ApplyPsuName(is_gpu) ==
    /\ nm_fn = "none"
    /\ nm_fn' = IF is_gpu THEN "parse_psu_name_gpu" ELSE "parse_psu_name_cpu"
    /\ nm_out' = parse_psu_name(nm_in, is_gpu)
    /\ UNCHANGED <<bmc, hung, reqlog, globals, gauges, phase, locals, history, response, nm_in>>

\* the name parse_psu_name returned is handed to it again, same group
ReapplyPsuName(is_gpu) ==
    /\ nm_fn = IF is_gpu THEN "parse_psu_name_gpu" ELSE "parse_psu_name_cpu"
    /\ nm_fn' = IF is_gpu THEN "parse_psu_name_gpu_twice"
                          ELSE "parse_psu_name_cpu_twice"
    /\ nm_out' = parse_psu_name(nm_out, is_gpu)
    /\ UNCHANGED <<bmc, hung, reqlog, globals, gauges, phase, locals, history, response, nm_in>>

ApplyFanName ==
    /\ nm_fn = "none"
    /\ nm_fn' = "parse_fan_name"
    /\ nm_out' = parse_fan_name(nm_in)
    /\ UNCHANGED <<bmc, hung, reqlog, globals, gauges, phase, locals, history, response, nm_in>>

ApplyTempName ==
    /\ nm_fn = "none"
    /\ nm_fn' = "parse_temp_name"
    /\ nm_out' = parse_temp_name(nm_in)
    /\ UNCHANGED <<bmc, hung, reqlog, globals, gauges, phase, locals, history, response, nm_in>>

NextNames ==
    \/ \E g \in BOOLEAN : ApplyPsuName(g)
    \/ \E g \in BOOLEAN : ReapplyPsuName(g)
    \/ ApplyFanName
    \/ ApplyTempName

SpecNames == InitNames /\ [][NextNames]_vars

(***************************************************************************)
(* Vocabulary of the properties.                                           *)
(***************************************************************************)
Res(c, i) == fresult[c][i]

GaugeNamed(g) ==
    CASE g = "psu_power_gauge" -> psu_power_gauge
      [] g = "fan_speed_gauge" -> fan_speed_gauge
      [] g = "temperature_gauge" -> temperature_gauge

PreNamed(c, g) ==
    CASE g = "psu_power_gauge" -> pre[c].power
      [] g = "fan_speed_gauge" -> pre[c].fan
      [] g = "temperature_gauge" -> pre[c].temp

GaugeNames == {"psu_power_gauge", "fan_speed_gauge", "temperature_gauge"}

\* the gauge writes future i of cycle c made
WritesOf(c, i) == {w \in updated[c] : w[1] = i}

\* the futures of cycle c that wrote label k of gauge g
WritersOf(c, g, k) == {w[1] : w \in {x \in updated[c] : x[2] = g /\ x[3] = k}}

\* the call returned a reading
HasReading(c, i) == ~Res(c, i).exc /\ Res(c, i).Reading # None

\* the name bears one of the category markers
Classifiable(name) ==
    \/ Contains(name, S_GPU_TRAY_PSU)
    \/ Contains(name, S_CPU_TRAY_PSU)
    \/ Contains(name, S_FAN)
    \/ Contains(name, S_TEMP)

PsuFutures(c) == {i \in 1..Len(futures[c]) : futures[c][i].fn = "query_psu"}

\* the entries of the three gauges are those of the beginning of the cycle
GaugesAsBefore(c) ==
    /\ psu_power_gauge = pre[c].power
    /\ fan_speed_gauge = pre[c].fan
    /\ temperature_gauge = pre[c].temp

\* the labels of gauge g that are new or hold another value than when cycle
\* c began
ChangedLabels(c, g) ==
    {k \in DOMAIN GaugeNamed(g) :
        k \notin DOMAIN PreNamed(c, g) \/ GaugeNamed(g)[k] # PreNamed(c, g)[k]}

\* the future the step handles, if it is a turn of the result loop
HandledNow(c) == yielded'[c] \ yielded[c]

(***************************************************************************)
(* C1: when the thermal fetch succeeds, a failed PSU fetch is caught       *)
(* inside collect_metrics: the cycle is never left by an exception, the    *)
(* failure is logged once, the failed future writes no gauge and its       *)
(* label keeps its value unless a sibling writes it, and every future      *)
(* with a reading and a classifiable name has written its gauge.  With     *)
(* five PSU endpoints of which exactly one fails, exactly four power       *)
(* entries are updated.                                                    *)
(***************************************************************************)
FailedPsuName(c, i) ==
    parse_psu_name(SplitLast(futures[c][i].psu_url, "/"), futures[c][i].is_gpu)

FiveWithOneFailure(c) ==
    /\ Len(futures[c]) = 5
    /\ Cardinality(PsuFutures(c)) = 5
    /\ Cardinality({i \in PsuFutures(c) : Res(c, i).exc}) = 1
    /\ \A i \in PsuFutures(c) :
         ~Res(c, i).exc => HasReading(c, i) /\ Classifiable(Res(c, i).Name)

C1_PsuFailureContained ==
    \A c \in Cycles :
        (thermal[c] = "ok" /\ phase[c] # "responded") =>
            /\ phase[c] \notin {"raised", "unwinding"}
            /\ errlog[c] = Cardinality({i \in yielded[c] : Res(c, i).exc})
            /\ \A i \in yielded[c] :
                 /\ Res(c, i).exc => WritesOf(c, i) = {}
                 /\ (Res(c, i).exc /\ i \in PsuFutures(c)
                     /\ WritersOf(c, "psu_power_gauge", FailedPsuName(c, i)) = {})
                    => FailedPsuName(c, i) \notin ChangedLabels(c, "psu_power_gauge")
                 /\ (HasReading(c, i) /\ Classifiable(Res(c, i).Name))
                    => \E w \in WritesOf(c, i) :
                         /\ w[3] \in DOMAIN GaugeNamed(w[2])
                         /\ WritersOf(c, w[2], w[3]) = {i}
                            => GaugeNamed(w[2])[w[3]] = Float(Res(c, i).Reading)
            /\ (phase[c] = "collected" /\ FiveWithOneFailure(c))
               => Cardinality(ChangedLabels(c, "psu_power_gauge")) = 4

C1_Witness ==
    \E c \in Cycles :
        /\ phase[c] = "collected"
        /\ FiveWithOneFailure(c)
        /\ Cardinality(DOMAIN psu_power_gauge) = 4
        /\ errlog[c] = 1

(***************************************************************************)
(* C2: when the thermal fetch fails, collect_metrics is left by the        *)
(* exception, no call is submitted and none runs, and the three gauges     *)
(* hold what they held when the cycle began.                               *)
(***************************************************************************)
C2_ThermalFailureAborts ==
    \A c \in Cycles :
        thermal[c] = "failed" =>
            /\ phase[c] \in {"raised", "responded"}
            /\ futures[c] = <<>>
            /\ completed[c] = <<>>
            /\ updated[c] = {}
            /\ phase[c] = "raised" => GaugesAsBefore(c)
            /\ phase[c] = "responded" => response[c] # 200

C2_Witness ==
    \E c \in Cycles :
        /\ thermal[c] = "failed"
        /\ phase[c] = "raised"
        /\ DOMAIN psu_power_gauge # {}
        /\ DOMAIN fan_speed_gauge # {}
        /\ DOMAIN temperature_gauge # {}

(***************************************************************************)
(* C3: the turn of the result loop that handles a call which returned no   *)
(* reading (field absent or null) writes no gauge entry, leaves every      *)
(* gauge value as it was and logs no error.                                *)
(***************************************************************************)
C3_NoReadingNoWrite ==
    [][\A c \in Cycles : \A i \in HandledNow(c) :
          (~Res(c, i).exc /\ Res(c, i).Reading = None) =>
              /\ psu_power_gauge' = psu_power_gauge
              /\ fan_speed_gauge' = fan_speed_gauge
              /\ temperature_gauge' = temperature_gauge
              /\ updated'[c] = updated[c]
              /\ errlog'[c] = errlog[c]
              /\ phase'[c] = phase[c]]_vars

C3_Witness ==
    \E c \in Cycles : \E i \in yielded[c] :
        /\ ~Res(c, i).exc
        /\ Res(c, i).Reading = None
        /\ Res(c, i).Name \in DOMAIN pre[c].fan
        /\ fan_speed_gauge[Res(c, i).Name] = pre[c].fan[Res(c, i).Name]
        /\ \E j \in yielded[c] :
             /\ futures[c][j].fn = "query_psu"
             /\ ~Res(c, j).exc
             /\ Res(c, j).Reading = None
             /\ Res(c, j).Name \in DOMAIN pre[c].power

(***************************************************************************)
(* C4: the turn of the result loop that handles a reading writes at most   *)
(* one gauge: "GPU_TRAY_PSU2" goes to the power gauge only, "FAN3 Front"   *)
(* to the fan gauge only, "TEMP_GPU_TRAY_PSU1" to the temperature gauge    *)
(* only, and a name with none of the category markers changes no gauge.    *)
(***************************************************************************)
N_GPU_TRAY_PSU2 == S_GPU_TRAY_PSU \o <<"2">>
N_FAN3_Front == S_FAN \o <<"3">> \o S_Front
N_TEMP_GPU_TRAY_PSU1 == S_TEMP_GPU_TRAY_PSU \o <<"1">>

\* the gauges the step changes
GaugesChanged ==
    {g \in GaugeNames :
        \/ g = "psu_power_gauge" /\ psu_power_gauge' # psu_power_gauge
        \/ g = "fan_speed_gauge" /\ fan_speed_gauge' # fan_speed_gauge
        \/ g = "temperature_gauge" /\ temperature_gauge' # temperature_gauge}

\* the step sets label k of gauge g to v and touches nothing else of the gauges
WritesOnly(g, k, v) ==
    /\ GaugesChanged \subseteq {g}
    /\ g = "psu_power_gauge" => psu_power_gauge' = GaugeSet(psu_power_gauge, k, v)
    /\ g = "fan_speed_gauge" => fan_speed_gauge' = GaugeSet(fan_speed_gauge, k, v)
    /\ g = "temperature_gauge"
       => temperature_gauge' = GaugeSet(temperature_gauge, k, v)

C4_OneGaugePerName ==
    [][\A c \in Cycles : \A i \in HandledNow(c) :
          HasReading(c, i) =>
              LET name == Res(c, i).Name
                  v == Res(c, i).Reading[2]
              IN  /\ Cardinality(GaugesChanged) <= 1
                  /\ Cardinality(WritesOf(c, i)') <= 1
                  /\ name = N_GPU_TRAY_PSU2 => WritesOnly("psu_power_gauge", name, v)
                  /\ name = N_FAN3_Front => WritesOnly("fan_speed_gauge", name, v)
                  /\ name = N_TEMP_GPU_TRAY_PSU1
                     => WritesOnly("temperature_gauge", name, v)
                  /\ ~Classifiable(name)
                     => GaugesChanged = {} /\ updated' = updated]_vars

C4_Witness ==
    \E c \in Cycles :
        /\ \E i \in yielded[c] : <<i, "psu_power_gauge", N_GPU_TRAY_PSU2>> \in updated[c]
        /\ \E i \in yielded[c] : <<i, "fan_speed_gauge", N_FAN3_Front>> \in updated[c]
        /\ \E i \in yielded[c] :
             <<i, "temperature_gauge", N_TEMP_GPU_TRAY_PSU1>> \in updated[c]
        /\ N_GPU_TRAY_PSU2 \notin DOMAIN fan_speed_gauge \cup DOMAIN temperature_gauge
        /\ N_FAN3_Front \notin DOMAIN psu_power_gauge \cup DOMAIN temperature_gauge
        /\ N_TEMP_GPU_TRAY_PSU1 \notin DOMAIN psu_power_gauge \cup DOMAIN fan_speed_gauge

\* a reading whose name bears no category marker has been handled
C4_DroppedSeen ==
    \E c \in Cycles : \E i \in yielded[c] :
        HasReading(c, i) /\ ~Classifiable(Res(c, i).Name)

(***************************************************************************)
(* C5: a failed discovery (request failed, non-success status, body not    *)
(* JSON, no Members, a member without identifier) ends the process and no  *)
(* cycle ever runs; every cycle that runs follows a discovery that         *)
(* succeeded.                                                              *)
(***************************************************************************)
DiscoveryFailed ==
    \/ listing.kind \in {"neterr", "status", "badjson"}
    \/ /\ listing.kind = "json"
       /\ \/ ~listing.has_Members
          \/ \E k \in 1..Len(listing.Members) : listing.Members[k].odata_id[1] # "str"

DiscoverySucceeded == listing.kind = "json" /\ ~DiscoveryFailed

C5_DiscoveryGatesCycles ==
    /\ DiscoveryFailed =>
         /\ main_pc = "exited"
         /\ \A c \in Cycles : phase[c] = "idle" /\ response[c] = 0
         /\ ~ENABLED Next
    /\ \A c \in Cycles : phase[c] # "idle" => DiscoverySucceeded /\ main_pc = "serving"
    /\ main_pc = "serving" => DiscoverySucceeded

C5_Witness ==
    /\ main_pc = "exited"
    /\ listing.kind = "json"
    /\ listing.has_Members
    /\ \A c \in Cycles : phase[c] = "idle"

(***************************************************************************)
(* C6: a successful discovery partitions the listed members: one in the    *)
(* GPU group bears the power-distribution-board marker, one in the CPU     *)
(* group bears the motherboard-PSU marker, one in neither group bears      *)
(* neither marker, none is in both groups, and the groups hold listed      *)
(* identifiers only.                                                       *)
(***************************************************************************)
ListedIds == {listing.Members[k].odata_id[2] : k \in 1..Len(listing.Members)}
GpuIds == {gpu_psu_endpoints[k] : k \in 1..Len(gpu_psu_endpoints)}
CpuIds == {cpu_psu_endpoints[k] : k \in 1..Len(cpu_psu_endpoints)}

C6_DiscoveryPartitions ==
    (main_pc = "serving" /\ DiscoverySucceeded) =>
        /\ GpuIds \cup CpuIds \subseteq ListedIds
        /\ GpuIds \cap CpuIds = {}
        /\ \A id \in ListedIds :
             /\ id \in GpuIds => Contains(id, S_power_PWR_PDB_)
             /\ id \in CpuIds => Contains(id, S_PWR_MB_PSU)
             /\ id \notin GpuIds \cup CpuIds
                => ~Contains(id, S_power_PWR_PDB_) /\ ~Contains(id, S_PWR_MB_PSU)

(***************************************************************************)
(* C7: the fan-out neither deadlocks nor corrupts the gauges: whatever     *)
(* the completion order, once every call has returned or failed the        *)
(* cycle has a step to take until collect_metrics returns, it returns      *)
(* only after every future was handled, and each gauge entry holds its     *)
(* value of the beginning of the cycle or the reading of a call of the     *)
(* cycle that wrote that entry.                                            *)
(***************************************************************************)
CycleStep(c) == AsCompleted(c) \/ HandleNext(c) \/ Return(c)

\* entry k of gauge g is the one of the beginning of cycle c
Unchanged(c, g, k) ==
    k \in DOMAIN PreNamed(c, g) /\ GaugeNamed(g)[k] = PreNamed(c, g)[k]

\* entry k of gauge g is the reading of a call of cycle c that resolves to it
FromCall(c, g, k) ==
    \E i \in yielded[c] :
        /\ HasReading(c, i)
        /\ k \in {Res(c, i).Name, Replace(Res(c, i).Name, S_power_, <<>>)}
        /\ GaugeNamed(g)[k] = Res(c, i).Reading[2]

C7_NoDeadlockNoCorruption ==
    \A c \in Cycles :
        /\ (phase[c] \in {"submitted", "as_completed"} /\ Running(c) = {})
           => ENABLED CycleStep(c)
        /\ phase[c] = "collected"
           => Running(c) = {} /\ yielded[c] = 1..Len(futures[c])
        /\ phase[c] \in {"submitted", "as_completed", "collected"} =>
             \A g \in GaugeNames :
                 /\ DOMAIN PreNamed(c, g) \subseteq DOMAIN GaugeNamed(g)
                 /\ \A k \in DOMAIN GaugeNamed(g) :
                        Unchanged(c, g, k) \/ FromCall(c, g, k)

C7_Witness ==
    \E c \in Cycles :
        /\ phase[c] = "collected"
        /\ Len(futures[c]) = 3
        /\ entered[c] = 1
        /\ completed[c] = <<3, 1, 2>>
        /\ \E k \in DOMAIN psu_power_gauge : Unchanged(c, "psu_power_gauge", k)
        /\ \E k \in DOMAIN psu_power_gauge :
             ~Unchanged(c, "psu_power_gauge", k) /\ FromCall(c, "psu_power_gauge", k)

(***************************************************************************)
(* C8: a scrape is answered 500 exactly when the thermal fetch of its      *)
(* cycle failed and 200 otherwise, however many PSU fetches failed; the    *)
(* process keeps serving after a failed cycle, and the next scrape         *)
(* starts a new cycle.                                                     *)
(***************************************************************************)
C8_ResponseFollowsThermal ==
    \A c \in Cycles :
        /\ phase[c] = "responded" =>
             /\ thermal[c] = "failed" => response[c] = 500
             /\ thermal[c] = "ok" => response[c] = 200
             /\ thermal[c] \in {"failed", "ok"}
             /\ main_pc = "serving"
        /\ phase[c] # "responded" => response[c] = 0
        /\ (response[c] = 500 /\ c + 1 \in Cycles /\ phase[c + 1] = "idle")
           => ENABLED Scrape(c + 1)
        /\ phase[c] = "collected" => ENABLED Respond(c)

\* a cycle all of whose PSU fetches failed is about to be answered
C8_AllPsuFailedSeen ==
    \E c \in Cycles :
        /\ phase[c] = "collected"
        /\ Cardinality(PsuFutures(c)) = 3
        /\ \A i \in PsuFutures(c) : Res(c, i).exc

C8_Witness ==
    \E c \in Cycles :
        /\ c + 1 \in Cycles
        /\ response[c] = 500
        /\ response[c + 1] = 200

(***************************************************************************)
(* C9: a reading whose name still carries the stray prefix (it contains    *)
(* "power_CPU_TRAY_PSU") is written to the power gauge under the name      *)
(* without "power_", and no power-gauge label contains                     *)
(* "power_CPU_TRAY_PSU".                                                   *)
(***************************************************************************)
C9_StrayPrefixStripped ==
    /\ \A k \in DOMAIN psu_power_gauge : ~Contains(k, S_power_CPU_TRAY_PSU)
    /\ \A c \in Cycles : \A i \in yielded[c] :
         (HasReading(c, i) /\ Contains(Res(c, i).Name, S_power_CPU_TRAY_PSU))
         => <<i, "psu_power_gauge", Replace(Res(c, i).Name, S_power_, <<>>)>>
                \in updated[c]

(***************************************************************************)
(* C10: parse_fan_name removes a leading "SPD_" and nothing else, rewrites *)
(* a trailing "_F" to " Front" or a trailing "_R" to " Rear" and nothing   *)
(* else, and returns an identifier with neither unchanged.                 *)
(***************************************************************************)
\* the identifier without the prefix p, when it begins with p
StripPrefix(m, p) == IF StartsWith(m, p) THEN SubSeq(m, Len(p) + 1, Len(m)) ELSE m

\* the identifier with its ending suf replaced by new, when it ends with suf
SwapSuffix(m, suf, new) ==
    IF EndsWith(m, suf) THEN SubSeq(m, 1, Len(m) - Len(suf)) \o new ELSE m

FanNameAsClaimed(m) ==
    LET a == StripPrefix(m, S_SPD_)
    IN  IF EndsWith(a, S__F) THEN SwapSuffix(a, S__F, S_Front)
        ELSE SwapSuffix(a, S__R, S_Rear)

C10_FanNamePrefixSuffixOnly ==
    nm_fn = "parse_fan_name" => nm_out = FanNameAsClaimed(nm_in)

(***************************************************************************)
(* C11: parse_temp_name is defined on every identifier.  When the          *)
(* identifier bears "TEMP_PDB_PSU", every occurrence becomes               *)
(* "TEMP_GPU_TRAY_PSU" and nothing else changes; otherwise, when it bears  *)
(* "TEMP_MB_PSU", every occurrence becomes "TEMP_CPU_TRAY_PSU" and nothing *)
(* else changes; otherwise the identifier is returned as it is.            *)
(* "TEMP_PDB_PSU1" gives "TEMP_GPU_TRAY_PSU1", "TEMP_MB_PSU1" gives        *)
(* "TEMP_CPU_TRAY_PSU1" and "TEMP_AMBIENT" gives "TEMP_AMBIENT".           *)
(***************************************************************************)
\* the positions of s where p occurs
Occurrences(s, p) == {i \in 1..Len(s) : MatchAt(s, p, i)}

\* out is s with its n occurrences of old turned into new: old is gone, new
\* occurs n more times, the length grew accordingly
Rewritten(s, out, old, new) ==
    LET n == Cardinality(Occurrences(s, old))
    IN  /\ Occurrences(out, old) = {}
        /\ Cardinality(Occurrences(out, new)) = Cardinality(Occurrences(s, new)) + n
        /\ Len(out) = Len(s) + n * (Len(new) - Len(old))

N_TEMP_AMBIENT == S_TEMP \o <<"_","A","M","B","I","E","N","T">>

C11_TempNameRewrites ==
    /\ nm_fn = "none" => ENABLED ApplyTempName
    /\ nm_fn = "parse_temp_name" =>
         /\ nm_in = S_TEMP_PDB_PSU \o <<"1">> => nm_out = S_TEMP_GPU_TRAY_PSU \o <<"1">>
         /\ nm_in = S_TEMP_MB_PSU \o <<"1">> => nm_out = S_TEMP_CPU_TRAY_PSU \o <<"1">>
         /\ nm_in = N_TEMP_AMBIENT => nm_out = N_TEMP_AMBIENT
         /\ IF Contains(nm_in, S_TEMP_PDB_PSU)
            THEN /\ Rewritten(nm_in, nm_out, S_TEMP_PDB_PSU, S_TEMP_GPU_TRAY_PSU)
                 /\ Occurrences(nm_out, S_TEMP_MB_PSU) # {}
                    <=> Occurrences(nm_in, S_TEMP_MB_PSU) # {}
            ELSE IF Contains(nm_in, S_TEMP_MB_PSU)
            THEN Rewritten(nm_in, nm_out, S_TEMP_MB_PSU, S_TEMP_CPU_TRAY_PSU)
            ELSE nm_out = nm_in

\* an identifier bearing both markers, the first one twice, was rewritten
C11_Witness ==
    /\ nm_fn = "parse_temp_name"
    /\ Cardinality(Occurrences(nm_in, S_TEMP_PDB_PSU)) = 2
    /\ Contains(nm_in, S_TEMP_MB_PSU)
    /\ Contains(nm_out, S_TEMP_MB_PSU)
    /\ Cardinality(Occurrences(nm_out, S_TEMP_GPU_TRAY_PSU)) = 2

(***************************************************************************)
(* C12: parse_psu_name applied to its own result, for the same group,      *)
(* returns that result; a name in canonical form (GPU_TRAY_PSU<i>,         *)
(* CPU_TRAY_PSU<i>) is returned as it is.                                  *)
(***************************************************************************)
C12_PsuNameIdempotent ==
    /\ nm_fn = "parse_psu_name_gpu_twice" => nm_out = parse_psu_name(nm_in, TRUE)
    /\ nm_fn = "parse_psu_name_cpu_twice" => nm_out = parse_psu_name(nm_in, FALSE)
    /\ (nm_fn \in {"parse_psu_name_gpu", "parse_psu_name_gpu_twice"}
        /\ nm_in = S_GPU_TRAY_PSU \o <<"1">>) => nm_out = nm_in
    /\ (nm_fn \in {"parse_psu_name_cpu", "parse_psu_name_cpu_twice"}
        /\ nm_in = S_CPU_TRAY_PSU \o <<"1">>) => nm_out = nm_in

\* a raw identifier went through parse_psu_name twice and came out canonical
C12_Witness ==
    /\ nm_fn = "parse_psu_name_cpu_twice"
    /\ nm_in = S_power_PWR_MB_PSU \o <<"1">>
    /\ nm_out = S_CPU_TRAY_PSU \o <<"1">>

(***************************************************************************)
(* C13: no step removes a gauge entry, and an entry changes its value      *)
(* only in the turn of the result loop that handles a call which returned  *)
(* a reading under that entry's name, and then to that reading.  Hence an  *)
(* entry whose sensor failed, returned no reading or is no longer listed   *)
(* in a cycle holds its last written value.                                *)
(***************************************************************************)
\* call i of cycle c returned a reading that resolves to label k
Resolves(c, i, k) ==
    /\ HasReading(c, i)
    /\ k \in {Res(c, i).Name, Replace(Res(c, i).Name, S_power_, <<>>)}

C13_EntriesNeverRemoved ==
    [][\A g \in GaugeNames :
          /\ DOMAIN GaugeNamed(g) \subseteq DOMAIN GaugeNamed(g)'
          /\ \A k \in DOMAIN GaugeNamed(g) :
                GaugeNamed(g)'[k] # GaugeNamed(g)[k] =>
                    \E c \in Cycles : \E i \in HandledNow(c) :
                        /\ Resolves(c, i, k)
                        /\ GaugeNamed(g)'[k] = Res(c, i).Reading[2]]_vars

\* the second cycle is over: its PSU fetch failed and its thermal body listed
\* no fan and no temperature, and the three entries of the first cycle stand
C13_Witness ==
    /\ MaxCycles >= 2
    /\ phase[2] = "collected"
    /\ Len(futures[2]) = 1
    /\ Res(2, 1).exc
    /\ N_GPU_TRAY_PSU2 \in DOMAIN psu_power_gauge
    /\ psu_power_gauge[N_GPU_TRAY_PSU2] = SensorValue(1, 1)
    /\ N_FAN3_Front \in DOMAIN fan_speed_gauge
    /\ fan_speed_gauge[N_FAN3_Front] = SensorValue(1, 11)
    /\ N_TEMP_GPU_TRAY_PSU1 \in DOMAIN temperature_gauge
    /\ temperature_gauge[N_TEMP_GPU_TRAY_PSU1] = SensorValue(1, 21)

(***************************************************************************)
(* C14: a handled call with a reading whose name bears "TEMP" has written  *)
(* the temperature gauge under that name, and no other gauge.              *)
(***************************************************************************)
C14_TempMarkerToTemperature ==
    \A c \in Cycles : \A i \in yielded[c] :
        (HasReading(c, i) /\ Contains(Res(c, i).Name, S_TEMP))
        => WritesOf(c, i) = {<<i, "temperature_gauge", Res(c, i).Name>>}

(***************************************************************************)
(* C15: at the end of a cycle, a gauge entry written by several calls of   *)
(* the cycle holds the reading of the one that completed last.             *)
(***************************************************************************)
\* the rank of call i of cycle c in the order of completion
Pos(c, i) == CHOOSE n \in 1..Len(completed[c]) : completed[c][n] = i

\* among the calls that wrote label k of gauge g, the one that completed last
LastCompleted(c, g, k) ==
    CHOOSE j \in WritersOf(c, g, k) :
        \A i \in WritersOf(c, g, k) : Pos(c, i) <= Pos(c, j)

\* the labels of gauge g that two or more calls of cycle c wrote
Contended(c, g) ==
    {k \in DOMAIN GaugeNamed(g) : Cardinality(WritersOf(c, g, k)) >= 2}

C15_LaterCompletionWins ==
    \A c \in Cycles : phase[c] = "collected" =>
        \A g \in GaugeNames : \A k \in Contended(c, g) :
            GaugeNamed(g)[k] = Float(Res(c, LastCompleted(c, g, k)).Reading)

(***************************************************************************)
(* C15 as amended: every turn of the result loop that writes an entry      *)
(* leaves the reading of the call it handles in it, so the call handled    *)
(* last wins; at the end of a cycle, an entry written by several calls     *)
(* holds the reading of the one that completed last whenever that one      *)
(* completed after the result loop began.                                  *)
(***************************************************************************)
LateWins(c) ==
    phase[c] = "collected" =>
        \A g \in GaugeNames : \A k \in Contended(c, g) :
            Pos(c, LastCompleted(c, g, k)) > entered[c]
            => GaugeNamed(g)[k] = Float(Res(c, LastCompleted(c, g, k)).Reading)

C15_LaterHandledWins ==
    [][\A c \in Cycles :
          /\ \A i \in HandledNow(c) : \A w \in WritesOf(c, i)' :
                GaugeNamed(w[2])'[w[3]] = Float(Res(c, i).Reading)
          /\ LateWins(c)']_vars

\* two calls wrote the same entry; the one that completed last did so after
\* the loop began, the other before, and the entry holds the last one's reading
C15_Witness ==
    \E c \in Cycles : \E g \in GaugeNames : \E k \in Contended(c, g) :
        /\ phase[c] = "collected"
        /\ Pos(c, LastCompleted(c, g, k)) > entered[c]
        /\ \E i \in WritersOf(c, g, k) : Pos(c, i) <= entered[c]
        /\ GaugeNamed(g)[k] = Float(Res(c, LastCompleted(c, g, k)).Reading)

(***************************************************************************)
(* C16: a cycle with one PSU request that is never answered is not         *)
(* stalled: once every other call has returned or failed, the cycle still  *)
(* has a step to take until collect_metrics returns or raises.             *)
(***************************************************************************)
C16_OneHungFetchNoStall ==
    \A c \in Cycles :
        (/\ phase[c] \in {"submitted", "as_completed", "unwinding"}
         /\ Cardinality(hung[c]) = 1
         /\ Running(c) = hung[c])
        => ENABLED CycleStep(c)

(***************************************************************************)
(* C17: in a cycle the thermal resource is requested once; no resource is  *)
(* requested twice; only the thermal resource and the PSU endpoints of     *)
(* the two groups are requested, so a fan or temperature entry causes no   *)
(* request; after a failed thermal request nothing else is requested; and  *)
(* when collect_metrics returns, every endpoint of either group has been   *)
(* requested once.                                                         *)
(***************************************************************************)
C17_EachResourceOnce ==
    \A c \in Cycles :
        /\ phase[c] \in {"submitted", "as_completed", "unwinding", "collected", "raised"}
           => S_ThermalPath \in DOMAIN reqlog[c]
        /\ \A u \in DOMAIN reqlog[c] : reqlog[c][u] = 1
        /\ DOMAIN reqlog[c] \subseteq {S_ThermalPath} \cup GpuIds \cup CpuIds
        /\ thermal[c] = "failed" /\ phase[c] = "raised"
           => DOMAIN reqlog[c] = {S_ThermalPath}
        /\ phase[c] = "collected"
           => DOMAIN reqlog[c] = {S_ThermalPath} \cup GpuIds \cup CpuIds

(***************************************************************************)
(* C18: once discovery is over, no step changes gpu_psu_endpoints or       *)
(* cpu_psu_endpoints and discovery does not run again, whether cycles      *)
(* succeed, fail in part, abort or overlap; and the PSU fetches of every   *)
(* cycle that fans out are those of the GPU list followed by those of the  *)
(* CPU list.                                                               *)
(***************************************************************************)
\* the endpoints the PSU calls of cycle c fetch, in submission order
PsuUrls(c) ==
    LET IsPsu(call) == call.fn = "query_psu"
        ps == SelectSeq(futures[c], IsPsu)
    IN  [k \in 1..Len(ps) |-> ps[k].psu_url]

C18_EndpointsImmutable ==
    [][/\ main_pc # "start" =>
            /\ gpu_psu_endpoints' = gpu_psu_endpoints
            /\ cpu_psu_endpoints' = cpu_psu_endpoints
            /\ listing' = listing
            /\ main_pc' = main_pc
       /\ \A c \in Cycles :
            phase'[c] \in {"submitted", "as_completed", "unwinding", "collected"}
            => PsuUrls(c)' = gpu_psu_endpoints' \o cpu_psu_endpoints']_vars

\* two cycles under way at once: the first has met a failed PSU fetch, the
\* second was aborted by its thermal fetch, and both lists are as discovered
C18_Witness ==
    /\ MaxCycles >= 2
    /\ phase[1] = "as_completed"
    /\ \E i \in yielded[1] : Res(1, i).exc
    /\ phase[2] = "raised"
    /\ thermal[2] = "failed"
    /\ gpu_psu_endpoints = <<Path(Id_PDB_PSU1)>>
    /\ cpu_psu_endpoints = <<Path(Id_MB_PSU1)>>
    /\ PsuUrls(1) = <<Path(Id_PDB_PSU1), Path(Id_MB_PSU1)>>

(***************************************************************************)
(* C19: when collect_metrics has returned or raised, no call of its cycle  *)
(* is running or pending; and in a run whose cycles do not overlap, a      *)
(* gauge entry is written only by the one cycle under way, in its result   *)
(* loop, with a reading fetched in that cycle.                             *)
(***************************************************************************)
\* the cycle in which a reading was fetched
CycleOf(value) == value \div 100

\* the step writes label k of gauge g
Written(g, k) ==
    /\ k \in DOMAIN GaugeNamed(g)'
    /\ k \in DOMAIN GaugeNamed(g) => GaugeNamed(g)'[k] # GaugeNamed(g)[k]

C19_NoTaskOutlivesItsCycle ==
    [][/\ \A c \in Cycles :
            phase'[c] \in {"collected", "raised", "responded"}
            => Running(c)' = {}
       /\ \A g \in GaugeNames : \A k \in DOMAIN GaugeNamed(g)' :
            Written(g, k) =>
                \E c \in Cycles :
                    /\ InFlight = {c}
                    /\ phase[c] = "as_completed"
                    /\ HandledNow(c) # {}
                    /\ CycleOf(GaugeNamed(g)'[k]) = c]_vars

\* the second cycle has returned after three PSU fetches: one entry holds a
\* reading of the first cycle, another a reading of the second
C19_Witness ==
    /\ MaxCycles >= 2
    /\ phase[1] = "responded"
    /\ phase[2] = "collected"
    /\ Len(futures[2]) = 3
    /\ Running(2) = {}
    /\ \E k \in DOMAIN psu_power_gauge : CycleOf(psu_power_gauge[k]) = 1
    /\ \E k \in DOMAIN psu_power_gauge : CycleOf(psu_power_gauge[k]) = 2

=============================================================================
